---- MODULE Spec2Model ----
(***************************************************************************)
(* demuxfs: the PAT section parser (pat_parse and its helpers), the        *)
(* versioned dentry tree it builds, the two hash tables it keeps           *)
(* (psi_tables, psi_parsers), a concurrent VFS reader, and the DSM-CC      *)
(* compatibility descriptor dentry builder.                                *)
(*                                                                         *)
(* The parser thread runs pat_parse as a sequence of steps (pc); a reader  *)
(* thread resolves paths and probes psi_tables between any two steps.      *)
(* Dentries and table objects live in two heaps (sequences indexed by      *)
(* address); a freed object keeps its record with live = FALSE so that a   *)
(* dangling reference can be told from a live one.                         *)
(***************************************************************************)
EXTENDS Integers, Sequences, FiniteSets, TLC

(* ------------------------------ bounds -------------------------------- *)

\* number of PAT sections the parser accepts in one behaviour
MaxParses == 2
\* highest version_number fed to the parser
MaxVersion == 1
\* most program entries in one PAT section
MaxPrograms == 2
\* most descriptors / sub-descriptors of a DSM-CC compatibility descriptor
MaxDescriptors == 2

\* the greatest adaptation_length of a DSM-CC header
MaxAdaptation == 2

(* ------------------------- program constants -------------------------- *)

TS_PAT_PID == 0
TS_NIT_PID == 16
TS_PAT_TABLE_ID == 0
TS_PMT_TABLE_ID == 2
TS_NIT_TABLE_ID == 64
TS_LAST_TABLE_ID == 191

FS_PAT_NAME == "PAT"
FS_PMT_NAME == "PMT"
FS_NIT_NAME == "NIT"
FS_CURRENT_NAME == "Current"
FS_PROGRAMS_NAME == "Programs"

(* ---------------------------- formatting ------------------------------ *)

HexDigit(d) ==
    <<"0","1","2","3","4","5","6","7","8","9","a","b","c","d","e","f">>[d + 1]

RECURSIVE HexDigits(_)
\* the hexadecimal digits of n, no padding, lower case (printf %x)
HexDigits(n) ==
    IF n < 16 THEN HexDigit(n) ELSE HexDigits(n \div 16) \o HexDigit(n % 16)

RECURSIVE NumHexDigits(_)
NumHexDigits(n) == IF n < 16 THEN 1 ELSE 1 + NumHexDigits(n \div 16)

RECURSIVE Zeros(_)
Zeros(k) == IF k <= 0 THEN "" ELSE "0" \o Zeros(k - 1)

\* printf("%#04x", n): the alternate form puts "0x" before a nonzero value and
\* nothing before zero; the field width 4 counts the prefix, and the 0 flag
\* pads with zeros between the prefix and the digits.
FmtAlt04x(n) ==
    IF n = 0 THEN "0000"
    ELSE "0x" \o Zeros(2 - NumHexDigits(n)) \o HexDigits(n)

\* printf("%02d", n) for n >= 0
Fmt02d(n) == IF n < 10 THEN "0" \o ToString(n) ELSE ToString(n)

\* the name fsutils_create_version_dir gives a version directory
VersionDirName(version) == "V" \o Fmt02d(version)

(* ------------------------------ bytes --------------------------------- *)

\* payload[i] of the C code (0-based)
ByteAt(payload, i) == payload[i + 1]

CONVERT_TO_16(a, b) == (a * 256 + b) % 65536

\* four bytes, big-endian; the identifiers of this model have a first byte
\* below 128, so the value stays within the integers TLC computes with
CONVERT_TO_32(a, b, c, d) == (((a * 256 + b) * 256 + c) * 256) + d

\* The hash key generator of the private hash table
TS_PACKET_HASH_KEY(pid, table_id) == ((pid % 65536) * 256) + table_id

(* --------------------------- dentry heap ------------------------------ *)

\* priv->root: the address of the root dentry
RootDentry == 1

\* a calloc'ed struct dentry: no name, no mode, no parent, no children
CallocDentry ==
    [name |-> "", kind |-> "none", parent |-> 0, contents |-> "",
     children |-> <<>>, inode |-> 0, live |-> TRUE]

\* CREATE_COMMON(parent, dentry): set the parent pointer of dentry `id` and
\* append it to the parent's list of children
CREATE_COMMON(h, parent, id) ==
    [h EXCEPT ![id].parent = parent, ![parent].children = Append(@, id)]

\* allocate a named dentry of the given kind at the next address and link it
CreateChild(h, parent, name, kind, contents) ==
    CREATE_COMMON(
        Append(h, [CallocDentry EXCEPT !.name = name, !.kind = kind,
                                       !.contents = contents]),
        parent, Len(h) + 1)

CREATE_DIRECTORY(h, parent, name) == CreateChild(h, parent, name, "dir", "")

CREATE_SYMLINK(h, parent, name, target) ==
    CreateChild(h, parent, name, "symlink", target)

\* a numeric leaf: the decimal rendering of the field is the file's contents
CREATE_FILE_NUMBER(h, parent, name, value) ==
    CreateChild(h, parent, name, "file", ToString(value))

\* a binary leaf: the raw bytes are the file's contents
CREATE_FILE_BIN(h, parent, name, bytes) ==
    CreateChild(h, parent, name, "file", ToString(bytes))

\* the address CreateChild gives the dentry it allocates in heap h
NextDentry(h) == Len(h) + 1

RECURSIVE FirstNamed(_, _, _)
\* the first dentry of the list `kids` whose name is `name`, 0 when none
FirstNamed(h, kids, name) ==
    IF kids = <<>> THEN 0
    ELSE IF h[Head(kids)].name = name THEN Head(kids)
    ELSE FirstNamed(h, Tail(kids), name)

fsutils_get_child(h, d, name) == FirstNamed(h, h[d].children, name)

RECURSIVE fsutils_get_dentry(_, _, _)
\* walk `path` (a sequence of names) from dentry d by name; a symbolic link on
\* the way is followed relative to the directory that holds it; 0 when a
\* component is missing
fsutils_get_dentry(h, d, path) ==
    IF path = <<>> THEN d
    ELSE LET c == fsutils_get_child(h, d, Head(path))
             t == IF c # 0 /\ h[c].kind = "symlink"
                  THEN fsutils_get_child(h, d, h[c].contents)
                  ELSE c
         IN  IF t = 0 THEN 0 ELSE fsutils_get_dentry(h, t, Tail(path))

RECURSIVE Subtree(_, _)
\* the dentry d and everything below it
Subtree(h, d) ==
    {d} \cup UNION {Subtree(h, h[d].children[i]) : i \in 1..Len(h[d].children)}

\* free the whole subtree of d and take d off its parent's list of children
fsutils_dispose_tree(h, d) ==
    LET gone == Subtree(h, d)
        p == h[d].parent
    IN  [i \in 1..Len(h) |->
            IF i \in gone THEN [h[i] EXCEPT !.live = FALSE]
            ELSE IF i = p
                 THEN [h[i] EXCEPT !.children = SelectSeq(@, LAMBDA c : c # d)]
            ELSE h[i]]

RECURSIVE MigrateList(_, _, _, _)
MigrateList(h, kids, source, target) ==
    IF kids = <<>> THEN h
    ELSE LET c == Head(kids)
         IN  IF fsutils_get_child(h, target, h[c].name) = 0
             THEN MigrateList(
                    [h EXCEPT ![source].children = SelectSeq(@, LAMBDA x : x # c),
                              ![target].children = Append(@, c),
                              ![c].parent = target],
                    Tail(kids), source, target)
             ELSE MigrateList(h, Tail(kids), source, target)

\* reparent every child of source whose name target does not have; the others
\* stay in source
fsutils_migrate_children(h, source, target) ==
    MigrateList(h, h[source].children, source, target)

\* fsutils_create_version_dir(parent, version): create the V%02d child and
\* point the sibling Current symlink at it (created when missing)
fsutils_create_version_dir(h, parent, version) ==
    LET h1 == CREATE_DIRECTORY(h, parent, VersionDirName(version))
        cur == fsutils_get_child(h1, parent, FS_CURRENT_NAME)
    IN  IF cur = 0
        THEN CREATE_SYMLINK(h1, parent, FS_CURRENT_NAME, VersionDirName(version))
        ELSE [h1 EXCEPT ![cur].contents = VersionDirName(version)]

(* ---------------------------- hash tables ----------------------------- *)

\* the data stored for `key`, 0 (NULL) when the key is absent
hashtable_get(table, key) == IF key \in DOMAIN table THEN table[key] ELSE 0

\* insert, or replace the entry of a key already present
hashtable_add(table, key, data) ==
    [k \in DOMAIN table \cup {key} |-> IF k = key THEN data ELSE table[k]]

\* the table without `key` (the caller runs the entry's disposer)
hashtable_del(table, key) == [k \in DOMAIN table \ {key} |-> table[k]]

(* ------------------------- sections on the wire ----------------------- *)

\* the {program_number, PID} pairs the PAT sections of this model announce:
\* the NIT on its reserved PID, a PMT on PID 0x100, and a PMT on PID 0x1040,
\* the number that is also the psi_tables key of the NIT (0x10 << 8 | 0x40)
ProgramEntries ==
    { [program_number |-> 0, pid |-> TS_NIT_PID],
      [program_number |-> 1, pid |-> 256],
      [program_number |-> 2, pid |-> TS_PACKET_HASH_KEY(TS_NIT_PID, TS_NIT_TABLE_ID)] }

ProgramLists ==
    UNION {[1..n -> ProgramEntries] : n \in 0..MaxPrograms}

RECURSIVE ProgramBytes(_)
\* program_number (16), reserved (3), PID (13), big-endian
ProgramBytes(progs) ==
    IF progs = <<>> THEN <<>>
    ELSE LET e == Head(progs)
         IN  << e.program_number \div 256, e.program_number % 256,
                224 + (e.pid \div 256), e.pid % 256 >>
             \o ProgramBytes(Tail(progs))

\* a PAT section: the 8-byte common header, the program loop, 4 CRC bytes
SectionBytes(table_id, version, cni, progs) ==
    LET section_length == 5 + 4 * Len(progs) + 4
    IN  << table_id,
           176 + (section_length \div 256), section_length % 256,
           0, 1,
           192 + 2 * version + cni,
           0, 0 >>
        \o ProgramBytes(progs) \o <<0, 0, 0, 0>>

\* what the ingestion thread can hand to pat_parse: a section and whether its
\* CRC32 matches.  Every version and program list comes as an applicable
\* section with a good CRC; a section that is not yet applicable
\* (current_next_indicator = 0) comes with every version, and a section whose
\* CRC is bad with either indicator.
OneProgram == << [program_number |-> 1, pid |-> 256] >>

Sections ==
    { [payload |-> SectionBytes(TS_PAT_TABLE_ID, v, 1, progs), crc_ok |-> TRUE] :
        v \in 0..MaxVersion, progs \in ProgramLists }
    \cup
    { [payload |-> SectionBytes(TS_PAT_TABLE_ID, v, 0, OneProgram), crc_ok |-> TRUE] :
        v \in 0..MaxVersion }
    \cup
    { [payload |-> SectionBytes(TS_PAT_TABLE_ID, 0, c, OneProgram), crc_ok |-> FALSE] :
        c \in {0, 1} }

\* a section of 3 + section_length bytes whose section_length is below 9: the
\* common header and section_length - 5 bytes after it
ShortSectionBytes(version, section_length) ==
    << TS_PAT_TABLE_ID,
       176 + (section_length \div 256), section_length % 256,
       0, 1,
       192 + 2 * version + 1,
       0, 0 >>
    \o [k \in 1..(section_length - 5) |-> 0]

\* the shortest section that holds the common header has section_length 5
ShortSections ==
    { [payload |-> ShortSectionBytes(v, len), crc_ok |-> TRUE] :
        v \in 0..MaxVersion, len \in 5..8 }

(* ------------------------- PSI common parser -------------------------- *)

\* psi_parse: decode the common header; ret < 0 when the section is refused
\* (table_id above TS_LAST_TABLE_ID, CRC mismatch), else the offset of the
\* first byte after the header
psi_parse(payload, crc_ok) ==
    LET table_id == ByteAt(payload, 0)
    IN  [ table_id |-> table_id,
          section_syntax_indicator |-> ByteAt(payload, 1) \div 128,
          section_length |->
              CONVERT_TO_16(ByteAt(payload, 1), ByteAt(payload, 2)) % 4096,
          transport_stream_id |-> CONVERT_TO_16(ByteAt(payload, 3), ByteAt(payload, 4)),
          version_number |-> (ByteAt(payload, 5) \div 2) % 32,
          current_next_indicator |-> ByteAt(payload, 5) % 2,
          section_number |-> ByteAt(payload, 6),
          last_section_number |-> ByteAt(payload, 7),
          ret |-> IF table_id > TS_LAST_TABLE_ID \/ ~crc_ok THEN -1 ELSE 8 ]

\* the leaves psi_populate creates in a version directory, one per field of
\* the common header
PsiHeaderFields ==
    << "table_id", "section_syntax_indicator", "section_length", "transport_stream_id",
       "version_number", "current_next_indicator", "section_number",
       "last_section_number" >>

RECURSIVE PsiLeaves(_, _, _, _)
PsiLeaves(h, parent, t, fields) ==
    IF fields = <<>> THEN h
    ELSE PsiLeaves(CREATE_FILE_NUMBER(h, parent, Head(fields), t[Head(fields)]),
                   parent, t, Tail(fields))

psi_populate(h, t, parent) == PsiLeaves(h, parent, t, PsiHeaderFields)

(* ----------------------------- PAT parser ----------------------------- *)

\* integer division of C: the quotient is truncated toward zero
CDiv(a, b) == IF a >= 0 THEN a \div b ELSE -((-a) \div b)

\* lines 292-297: the number of program entries, stored in 16 bits
NumPrograms(section_length) == CDiv(section_length - 2 - 1 - 1 - 1 - 4, 4) % 65536

\* line 303: the offset of the i-th program entry (i counts from 0), 16 bits
ProgramOffset(i) == (8 + i * 4) % 65536

\* lines 304-306: the payload indices read for the i-th entry
ProgramReads(i) == ProgramOffset(i)..(ProgramOffset(i) + 3)

\* the loop of lines 302-307 reads past the end of the payload
ReadsPastPayload(payload, n) ==
    \E i \in 0..(n - 1) : \E k \in ProgramReads(i) : k >= Len(payload)

\* what such a read does: the process is ended by the fault, or the entries
\* are decoded from whatever memory follows the payload
OverReadOutcomes == {"fault", "garbage"}

\* lines 302-307: the i-th program entry (i counts from 0)
ParseProgram(payload, i) ==
    LET offset == ProgramOffset(i)
    IN  [ program_number |->
              CONVERT_TO_16(ByteAt(payload, offset), ByteAt(payload, offset + 1)),
          reserved |-> ByteAt(payload, offset + 2) \div 16,
          pid |-> CONVERT_TO_16(ByteAt(payload, offset + 2),
                                ByteAt(payload, offset + 3)) % 8192 ]

\* ShouldDiscard that takes only a version_number above the stored one
ShouldDiscard_OnlyNewer(hdr, cur_version, has_current) ==
    hdr.current_next_indicator = 0
    \/ (has_current /\ hdr.version_number <= cur_version)

\* ShouldDiscard without the comparison of versions
ShouldDiscard_NoVersionCheck(hdr, cur_version, has_current) ==
    hdr.current_next_indicator = 0

\* ShouldDiscard without the test of current_next_indicator
ShouldDiscard_NoIndicatorCheck(hdr, cur_version, has_current) ==
    has_current /\ cur_version = hdr.version_number

\* line 283: the section is dropped when it is not yet applicable or when the
\* table already stored has its version
ShouldDiscard(hdr, cur_version, has_current) ==
    hdr.current_next_indicator = 0
    \/ (has_current /\ cur_version = hdr.version_number)

\* lines 227-236: the name of the symlink of a program and its target
ProgramLinkName(program_number) == FmtAlt04x(program_number)

ProgramLinkTarget(program_number, pid) ==
    IF program_number = 0
    THEN "../../../" \o FS_NIT_NAME \o "/" \o FS_CURRENT_NAME
    ELSE "../../../" \o FS_PMT_NAME \o "/" \o FmtAlt04x(pid) \o "/" \o FS_CURRENT_NAME

\* lines 229-239: the parse function a program's PID is registered with
ProgramParser(program_number) ==
    IF program_number = 0 THEN "nit_parse" ELSE "pmt_parse"

\* line 225: the probe that decides whether the PID gets a parser
ExistingParser(tbls, parsers, pid) == hashtable_get(tbls, pid)

RECURSIVE PopulatePrograms(_, _, _, _, _)
\* lines 216-241: st = [h, parsers]; one symlink per entry, in order, and a
\* parser for every PID the probe does not find
PopulatePrograms(st, tbls, dir, progs, i) ==
    IF i > Len(progs) THEN st
    ELSE LET e == progs[i]
             known == ExistingParser(tbls, st.parsers, e.pid) # 0
         IN  PopulatePrograms(
               [ h |-> CREATE_SYMLINK(st.h, dir,
                           ProgramLinkName(e.program_number),
                           ProgramLinkTarget(e.program_number, e.pid)),
                 parsers |-> IF known THEN st.parsers
                             ELSE hashtable_add(st.parsers, e.pid,
                                                ProgramParser(e.program_number)) ],
               tbls, dir, progs, i + 1)

\* pat_populate that starts from the dispatcher's reserved PIDs: what earlier
\* versions registered is dropped
pat_populate_Fresh(h, parsers, tbls, t, parent) ==
    PopulatePrograms([h |-> CREATE_DIRECTORY(h, parent, FS_PROGRAMS_NAME),
                      parsers |-> [p \in {q \in DOMAIN parsers : q < 32} |-> parsers[p]]],
                     tbls, NextDentry(h), t.programs, 1)

\* pat_populate with the loop bound one short: the last program is left out
pat_populate_OneShort(h, parsers, tbls, t, parent) ==
    PopulatePrograms([h |-> CREATE_DIRECTORY(h, parent, FS_PROGRAMS_NAME),
                      parsers |-> parsers],
                     tbls, NextDentry(h),
                     SubSeq(t.programs, 1, Len(t.programs) - 1), 1)

\* pat_populate: the Programs directory under `parent`, then the loop
pat_populate(h, parsers, tbls, t, parent) ==
    PopulatePrograms([h |-> CREATE_DIRECTORY(h, parent, FS_PROGRAMS_NAME),
                      parsers |-> parsers],
                     tbls, NextDentry(h), t.programs, 1)

\* the path of line 197, by components
PatProgramsPath == << FS_PAT_NAME, FS_CURRENT_NAME, FS_PROGRAMS_NAME >>

\* pat_announces_service that looks into the Programs directory of every
\* version directory of /PAT
pat_announces_service_AnyVersion(h, service_id) ==
    LET root == fsutils_get_child(h, RootDentry, FS_PAT_NAME)
    IN  /\ root # 0
        /\ \E i \in 1..Len(h[root].children) :
             LET programs == fsutils_get_child(h, h[root].children[i],
                                               FS_PROGRAMS_NAME)
             IN  /\ programs # 0
                 /\ fsutils_get_child(h, programs, FmtAlt04x(service_id)) # 0

\* lines 192-206: look /PAT/Current/Programs up from the root; false when it
\* is missing, else whether it has a child named "%#04x" of service_id
pat_announces_service(h, service_id) ==
    LET pat_programs == fsutils_get_dentry(h, RootDentry, PatProgramsPath)
    IN  IF pat_programs = 0 THEN FALSE
        ELSE fsutils_get_child(h, pat_programs, FmtAlt04x(service_id)) # 0

(* ------------------------------- state -------------------------------- *)

VARIABLES
    dentries,        \* the dentry heap: address -> struct dentry
    tables,          \* the table heap: address -> table object
    psi_tables,      \* priv->psi_tables: key -> address of a table object
    psi_parsers,     \* priv->psi_parsers: PID -> parse function
    pc,              \* where the ingestion thread is
    pat,             \* pat_parse's local `pat` (address, 0 when none)
    current_pat,     \* pat_parse's local `current_pat` (address, 0 = NULL)
    version_dentry,  \* pat_create_directory's local `version_dentry`
    call,            \* the outcome of the latest pat_parse call
    reader,          \* what the VFS reader thread holds
    installed,       \* the keys that have been added to psi_tables so far
    cd,              \* the DSM-CC compatibility descriptor being rendered
    msg,             \* the DSM-CC header parse: its payload, index and result
    query            \* the latest pat_announces_service call and its result

vars == << dentries, tables, psi_tables, psi_parsers, pc, pat, current_pat,
           version_dentry, call, reader, installed, cd, msg, query >>

shared == << dentries, tables, psi_tables, psi_parsers >>

\* call: what the latest pat_parse call was given (the version_number,
\* current_next_indicator, section_length and payload_len of its section,
\* whether psi_parse took it), the num_programs it computed, how it
\* ended, the table it built, the table it found stored and the children the
\* stored table's dentry had when the call began
NoCall ==
    [status |-> "none", version |-> 0, cni |-> 0, valid |-> FALSE,
     section_length |-> 0, payload_len |-> 0, num_programs |-> 0,
     pat |-> 0, old |-> 0, oldkids |-> <<>>]

NoCd == [descriptor_count |-> 0]

NoMsg == [phase |-> "none"]

\* query: the latest pat_announces_service call since the last pat_parse call:
\* the service_id asked for, what was returned and the table psi_tables held
\* for the PAT
NoQuery == [service_id |-> 0, result |-> FALSE, pat |-> 0, asked |-> FALSE]

\* the reserved PIDs the dispatcher starts with (those this model touches)
ReservedParsers ==
    [p \in {TS_PAT_PID, TS_NIT_PID} |->
        IF p = TS_PAT_PID THEN "pat_parse" ELSE "nit_parse"]

Init ==
    /\ dentries = << [CallocDentry EXCEPT !.name = "/", !.kind = "dir"] >>
    /\ tables = <<>>
    /\ psi_tables = << >>
    /\ psi_parsers = ReservedParsers
    /\ pc = "idle"
    /\ pat = 0
    /\ current_pat = 0
    /\ version_dentry = 0
    /\ call = NoCall
    /\ reader = [op |-> "idle", ref |-> 0]
    /\ installed = {}
    /\ cd = NoCd
    /\ msg = NoMsg
    /\ query = NoQuery

PatTables == {t \in DOMAIN tables : tables[t].kind = "PAT"}

\* the address calloc gives the next PAT table object, and the address of the
\* NIT's table object
NextPatTable == Cardinality(PatTables) + 1

NitTable == MaxParses + 1

(* ------------------------- the ingestion thread ----------------------- *)

\* pat_parse, lines 263-307: allocate, run psi_parse, probe psi_tables, drop
\* the section or parse its program loop.  Nothing shared is written; a
\* dropped section frees what was allocated and returns.  When the loop reads
\* past the payload the call ends in a fault or goes on with num_programs
\* entries that are not the section's, where this model leaves it.
PatParseBegin(sec) ==
    /\ pc = "idle"
    /\ hashtable_get(psi_parsers, TS_PAT_PID) = "pat_parse"
    /\ LET hdr == psi_parse(sec.payload, sec.crc_ok)
           key == TS_PACKET_HASH_KEY(TS_PAT_PID, hdr.table_id)
           cur == hashtable_get(psi_tables, key)
           n == NumPrograms(hdr.section_length)
           given == [NoCall EXCEPT !.version = hdr.version_number,
                                   !.cni = hdr.current_next_indicator,
                                   !.valid = sec.crc_ok,
                                   !.section_length = hdr.section_length,
                                   !.payload_len = Len(sec.payload)]
       IN  IF hdr.ret < 0
           THEN /\ call' = [given EXCEPT !.status = "psi_failed"]
                /\ UNCHANGED << shared, pc, pat, current_pat, version_dentry >>
           ELSE IF ShouldDiscard(hdr, IF cur = 0 THEN 0 ELSE tables[cur].version_number,
                                 cur # 0)
           THEN /\ call' = [given EXCEPT
                              !.status = IF hdr.current_next_indicator = 0
                                         THEN "not_current" ELSE "same_version",
                              !.old = cur]
                /\ UNCHANGED << shared, pc, pat, current_pat, version_dentry >>
           ELSE IF ReadsPastPayload(sec.payload, n)
           THEN /\ \E o \in OverReadOutcomes :
                     /\ pc' = IF o = "fault" THEN "crashed" ELSE "overread"
                     /\ call' = [given EXCEPT !.status = o, !.num_programs = n,
                                              !.old = cur]
                /\ UNCHANGED << shared, pat, current_pat, version_dentry >>
           ELSE /\ Cardinality(PatTables) < MaxParses
                /\ tables' = (NextPatTable :>
                      [ kind |-> "PAT", live |-> TRUE,
                        table_id |-> hdr.table_id,
                        section_syntax_indicator |-> hdr.section_syntax_indicator,
                        section_length |-> hdr.section_length,
                        transport_stream_id |-> hdr.transport_stream_id,
                        version_number |-> hdr.version_number,
                        current_next_indicator |-> hdr.current_next_indicator,
                        section_number |-> hdr.section_number,
                        last_section_number |-> hdr.last_section_number,
                        num_programs |-> n,
                        programs |-> [i \in 1..n |-> ParseProgram(sec.payload, i - 1)],
                        dentry |-> NextDentry(dentries) ]) @@ tables
                /\ dentries' = Append(dentries, [CallocDentry EXCEPT !.inode = key])
                /\ pat' = NextPatTable
                /\ current_pat' = cur
                /\ call' = [given EXCEPT
                              !.status = "running", !.pat = NextPatTable,
                              !.num_programs = n,
                              !.old = cur,
                              !.oldkids = IF cur = 0 THEN <<>>
                                          ELSE dentries[tables[cur].dentry].children]
                /\ pc' = "create_common"
                /\ UNCHANGED << psi_tables, psi_parsers, version_dentry >>
    /\ query' = NoQuery
    /\ UNCHANGED << reader, installed, cd, msg >>

\* pat_create_directory, lines 249-251: name the dentry PAT, make it a
\* directory and link it under the root
PatCreateCommon ==
    /\ pc = "create_common"
    /\ dentries' = CREATE_COMMON(
                     [dentries EXCEPT ![tables[pat].dentry].name = FS_PAT_NAME,
                                      ![tables[pat].dentry].kind = "dir"],
                     RootDentry, tables[pat].dentry)
    /\ pc' = "version_dir"
    /\ UNCHANGED << tables, psi_tables, psi_parsers, pat, current_pat,
                    version_dentry, call, reader, installed, cd, msg, query >>

\* line 254 creating the version directory only, without the Current link
PatCreateVersionDir_NoCurrent ==
    /\ pc = "version_dir"
    /\ version_dentry' = NextDentry(dentries)
    /\ dentries' = CREATE_DIRECTORY(dentries, tables[pat].dentry,
                                    VersionDirName(tables[pat].version_number))
    /\ pc' = "psi_populate"
    /\ UNCHANGED << tables, psi_tables, psi_parsers, pat, current_pat, call,
                    reader, installed, cd, msg, query >>

\* pat_create_directory, line 254
PatCreateVersionDir ==
    /\ pc = "version_dir"
    /\ version_dentry' = NextDentry(dentries)
    /\ dentries' = fsutils_create_version_dir(dentries, tables[pat].dentry,
                                              tables[pat].version_number)
    /\ pc' = "psi_populate"
    /\ UNCHANGED << tables, psi_tables, psi_parsers, pat, current_pat, call,
                    reader, installed, cd, msg, query >>

\* pat_create_directory, line 256
PatPsiPopulate ==
    /\ pc = "psi_populate"
    /\ dentries' = psi_populate(dentries, tables[pat], version_dentry)
    /\ pc' = "pat_populate"
    /\ UNCHANGED << tables, psi_tables, psi_parsers, pat, current_pat,
                    version_dentry, call, reader, installed, cd, msg, query >>

\* pat_create_directory, line 257, and the branch of line 311
PatPopulate ==
    /\ pc = "pat_populate"
    /\ LET st == pat_populate(dentries, psi_parsers, psi_tables, tables[pat],
                              version_dentry)
       IN  /\ dentries' = st.h
           /\ psi_parsers' = st.parsers
    /\ pc' = IF current_pat # 0 THEN "migrate" ELSE "add"
    /\ UNCHANGED << tables, psi_tables, pat, current_pat, version_dentry, call,
                    reader, installed, cd, msg, query >>

\* pat_parse without the call of line 312
PatMigrate_Skipped ==
    /\ pc = "migrate"
    /\ pc' = "dispose"
    /\ UNCHANGED << dentries, tables, psi_tables, psi_parsers, pat, current_pat,
                    version_dentry, call, reader, installed, cd, msg, query >>

\* line 312
PatMigrate ==
    /\ pc = "migrate"
    /\ dentries' = fsutils_migrate_children(dentries, tables[current_pat].dentry,
                                            tables[pat].dentry)
    /\ pc' = "dispose"
    /\ UNCHANGED << tables, psi_tables, psi_parsers, pat, current_pat,
                    version_dentry, call, reader, installed, cd, msg, query >>

\* line 313 given the new table's dentry instead of the old one's
PatDispose_NewTree ==
    /\ pc = "dispose"
    /\ dentries' = fsutils_dispose_tree(dentries, tables[pat].dentry)
    /\ pc' = "del"
    /\ UNCHANGED << tables, psi_tables, psi_parsers, pat, current_pat,
                    version_dentry, call, reader, installed, cd, msg, query >>

\* line 313
PatDispose ==
    /\ pc = "dispose"
    /\ dentries' = fsutils_dispose_tree(dentries, tables[current_pat].dentry)
    /\ pc' = "del"
    /\ UNCHANGED << tables, psi_tables, psi_parsers, pat, current_pat,
                    version_dentry, call, reader, installed, cd, msg, query >>

\* pat_free, lines 180-184, on a table whose dentry is live: dispose the named
\* tree, or free the dentry that has only been calloc'ed
pat_free(h, d) ==
    IF d # 0 /\ h[d].name # "" THEN fsutils_dispose_tree(h, d)
    ELSE IF d # 0 THEN [h EXCEPT ![d].live = FALSE]
    ELSE h

\* the values a read of the inode field of dentry d can give: the field when
\* the dentry is live; when it has been freed the read is of released memory,
\* which still holds the old value or holds anything else (here: a key that is
\* in no table, and the key of the NIT)
GarbageKeys ==
    { TS_PACKET_HASH_KEY(TS_PAT_PID, TS_PMT_TABLE_ID),
      TS_PACKET_HASH_KEY(TS_NIT_PID, TS_NIT_TABLE_ID) }

InodeRead(h, d) ==
    IF h[d].live THEN {h[d].inode} ELSE {h[d].inode} \cup GarbageKeys

\* what disposing a table whose dentry tree has already been freed can do: the
\* allocator aborts the process on the second free, or nothing visible happens
DoubleFreeOutcomes == {"crash", "silent"}

\* line 314: hashtable_del(priv->psi_tables, current_pat->dentry->inode); the
\* removed entry's disposer (pat_free) runs on the table object
PatDel ==
    /\ pc = "del"
    /\ \E k \in InodeRead(dentries, tables[current_pat].dentry) :
         LET t == hashtable_get(psi_tables, k)
         IN  IF t = 0
             THEN /\ pc' = "add"
                  /\ UNCHANGED << dentries, tables, psi_tables >>
             ELSE /\ psi_tables' = hashtable_del(psi_tables, k)
                  /\ IF tables[t].dentry # 0 /\ ~dentries[tables[t].dentry].live
                     THEN \E o \in DoubleFreeOutcomes :
                            /\ pc' = IF o = "crash" THEN "crashed" ELSE "add"
                            /\ tables' = IF o = "crash" THEN tables
                                         ELSE [tables EXCEPT ![t].live = FALSE]
                            /\ dentries' = dentries
                     ELSE /\ pc' = "add"
                          /\ tables' = [tables EXCEPT ![t].live = FALSE]
                          /\ dentries' = pat_free(dentries, tables[t].dentry)
    /\ UNCHANGED << psi_parsers, pat, current_pat, version_dentry, call, reader,
                    installed, cd, msg, query >>

\* line 316, and the return of line 318
PatAdd ==
    /\ pc = "add"
    /\ LET key == dentries[tables[pat].dentry].inode
       IN  /\ psi_tables' = hashtable_add(psi_tables, key, pat)
           /\ installed' = installed \cup {key}
    /\ call' = [call EXCEPT !.status = "accepted"]
    /\ pc' = "idle"
    /\ pat' = 0
    /\ current_pat' = 0
    /\ version_dentry' = 0
    /\ UNCHANGED << dentries, tables, psi_parsers, reader, cd, msg, query >>

\* the service_ids another table parser asks pat_announces_service about: the
\* program_numbers of ProgramEntries and one that no PAT lists
ServiceIds == {0, 1, 2, 3}

\* another parser of the ingestion thread, between two pat_parse calls, asks
\* whether the PAT announces a service
AnnouncesService(service_id) ==
    /\ pc = "idle"
    /\ query' = [ service_id |-> service_id,
                  result |-> pat_announces_service(dentries, service_id),
                  pat |-> hashtable_get(psi_tables, TS_PACKET_HASH_KEY(TS_PAT_PID, TS_PAT_TABLE_ID)),
                  asked |-> TRUE ]
    /\ UNCHANGED << shared, pc, pat, current_pat, version_dentry, call, reader,
                    installed, cd, msg >>

\* the NIT parser stores its table in psi_tables under (PID << 8) | table_id,
\* as every table parser does
NitInstall ==
    /\ pc = "idle"
    /\ NitTable \notin DOMAIN tables
    /\ LET key == TS_PACKET_HASH_KEY(TS_NIT_PID, TS_NIT_TABLE_ID)
       IN  /\ tables' = (NitTable :>
                 [ kind |-> "NIT", live |-> TRUE, table_id |-> TS_NIT_TABLE_ID,
                   section_syntax_indicator |-> 1, section_length |-> 9,
                   transport_stream_id |-> 1, version_number |-> 0,
                   current_next_indicator |-> 1, section_number |-> 0,
                   last_section_number |-> 0, num_programs |-> 0,
                   programs |-> <<>>, dentry |-> 0 ]) @@ tables
           /\ psi_tables' = hashtable_add(psi_tables, key, NitTable)
           /\ installed' = installed \cup {key}
    /\ UNCHANGED << dentries, psi_parsers, pc, pat, current_pat, version_dentry,
                    call, reader, cd, msg, query >>

(* --------------------------- the reader thread ------------------------ *)

ReaderPaths ==
    { <<FS_PAT_NAME>>, <<FS_PAT_NAME, FS_CURRENT_NAME>> }

\* a VFS thread resolves a path from the root and keeps the dentry
ReaderResolve(path) ==
    /\ pc # "crashed"
    /\ reader.op = "idle"
    /\ LET d == fsutils_get_dentry(dentries, RootDentry, path)
       IN  /\ d # 0
           /\ reader' = [op |-> "dentry", ref |-> d]
    /\ UNCHANGED << shared, pc, pat, current_pat, version_dentry, call,
                    installed, cd, msg, query >>

\* a thread probes psi_tables for the PAT: it finds no entry ("absent" when the
\* key was never added, "lost" when it was), an entry whose table object or
\* dentry tree has been freed, or a good one
ReaderLookup ==
    /\ pc # "crashed"
    /\ reader.op = "idle"
    /\ LET k == TS_PACKET_HASH_KEY(TS_PAT_PID, TS_PAT_TABLE_ID)
           t == hashtable_get(psi_tables, k)
       IN  reader' =
             [ op |-> IF t = 0 THEN (IF k \in installed THEN "lost" ELSE "absent")
                      ELSE IF ~tables[t].live \/ ~dentries[tables[t].dentry].live
                           THEN "freed_table"
                      ELSE "table",
               ref |-> t ]
    /\ UNCHANGED << shared, pc, pat, current_pat, version_dentry, call,
                    installed, cd, msg, query >>

ReaderRelease ==
    /\ pc # "crashed"
    /\ reader.op # "idle"
    /\ reader' = [op |-> "idle", ref |-> 0]
    /\ UNCHANGED << shared, pc, pat, current_pat, version_dentry, call,
                    installed, cd, msg, query >>

(* ------------------- DSM-CC compatibility descriptor ------------------ *)

\* the descriptor whose fields lines 77-88 read for the directory of loop
\* index i (counted from 0): cd->descriptors is dereferenced without an
\* index, which is its first element
DescriptorRead(c, i) == c.descriptors[1]

RECURSIVE SubDescriptorDentries(_, _, _, _)
\* lines 84-93, from loop index k on
SubDescriptorDentries(h, desc, subdir, k) ==
    IF k >= desc.sub_descriptor_count THEN h
    ELSE LET sub == desc.sub_descriptors[k + 1]
             dentry == NextDentry(h)
             h1 == CREATE_DIRECTORY(h, subdir, "sub_descriptor_" \o Fmt02d(k + 1))
             h2 == CREATE_FILE_NUMBER(h1, dentry, "sub_descriptor_type",
                                      sub.sub_descriptor_type)
             h3 == CREATE_FILE_NUMBER(h2, dentry, "sub_descriptor_length",
                                      sub.sub_descriptor_length)
             h4 == IF sub.sub_descriptor_length # 0
                   THEN CREATE_FILE_BIN(h3, dentry, "additional_information",
                                        sub.additional_information)
                   ELSE h3
         IN  SubDescriptorDentries(h4, desc, subdir, (k + 1) % 256)

RECURSIVE DescriptorDentries(_, _, _, _)
\* lines 72-94, from loop index i on
DescriptorDentries(h, c, parent, i) ==
    IF i >= c.descriptor_count THEN h
    ELSE LET desc == DescriptorRead(c, i)
             subdir == NextDentry(h)
             h1 == CREATE_DIRECTORY(h, parent, "descriptor_" \o Fmt02d(i + 1))
             h2 == CREATE_FILE_NUMBER(h1, subdir, "descriptor_type", desc.descriptor_type)
             h3 == CREATE_FILE_NUMBER(h2, subdir, "descriptor_length", desc.descriptor_length)
             h4 == CREATE_FILE_NUMBER(h3, subdir, "specifier_type", desc.specifier_type)
             h5 == CREATE_FILE_BIN(h4, subdir, "specifier_data", desc.specifier_data)
             h6 == CREATE_FILE_NUMBER(h5, subdir, "model", desc.model)
             h7 == CREATE_FILE_NUMBER(h6, subdir, "version", desc.version)
             h8 == CREATE_FILE_NUMBER(h7, subdir, "sub_descriptor_count",
                                      desc.sub_descriptor_count)
         IN  DescriptorDentries(SubDescriptorDentries(h8, desc, subdir, 0),
                                c, parent, (i + 1) % 65536)

\* lines 68-95
dsmcc_create_compatibility_descriptor_dentries(h, c, parent) ==
    DescriptorDentries(
        CREATE_FILE_NUMBER(
            CREATE_FILE_NUMBER(h, parent, "compatibility_descriptor_length",
                               c.compatibility_descriptor_length),
            parent, "descriptor_count", c.descriptor_count),
        c, parent, 0)

\* the sub-descriptors of a descriptor: n of them, each with `len` bytes of
\* additional information
SubDescriptors(n, len) ==
    [k \in 1..n |-> [ sub_descriptor_type |-> k, sub_descriptor_length |-> len,
                      additional_information |-> [j \in 1..len |-> k] ]]

\* the descriptors of this model: a type, a model number that tells them
\* apart, and up to MaxDescriptors sub-descriptors
Descriptors ==
    { [ descriptor_type |-> ty, descriptor_length |-> 9 + n * (2 + len),
        specifier_type |-> 1, specifier_data |-> <<0, 0, ty>>,
        model |-> ty, version |-> 1,
        sub_descriptor_count |-> n, sub_descriptors |-> SubDescriptors(n, len) ] :
        ty \in {1, 2}, n \in 0..MaxDescriptors, len \in {0, 1} }

RECURSIVE SumLengths(_)
SumLengths(ds) ==
    IF ds = <<>> THEN 0 ELSE 2 + Head(ds).descriptor_length + SumLengths(Tail(ds))

\* the compatibility descriptors a DII message can carry
CompatibilityDescriptors ==
    { [ compatibility_descriptor_length |-> 2 + SumLengths(ds),
        descriptor_count |-> Len(ds), descriptors |-> ds ] :
        ds \in UNION {[1..n -> Descriptors] : n \in 0..MaxDescriptors} }

\* a DSM-CC parser renders the compatibility descriptor it has parsed under
\* its parent dentry
DsmccCreateDentries ==
    /\ pc = "dsmcc"
    /\ dentries' = dsmcc_create_compatibility_descriptor_dentries(dentries, cd,
                                                                  RootDentry)
    /\ pc' = "dsmcc_done"
    /\ UNCHANGED << tables, psi_tables, psi_parsers, pat, current_pat,
                    version_dentry, call, reader, installed, cd, msg, query >>

(* ----------------------- DSM-CC message headers ------------------------ *)

\* a read past the end of the payload is of memory that is not the payload's:
\* it gives any byte (here 0 or 255) or ends the process ("fault")
GarbageBytes == {0, 255}

\* lines 101-107 and 123-129: the payload indices of the 12 fixed bytes
FixedReads(i) == i..(i + 11)

\* lines 111-114 and 133-136: adaptation_type is read at i+12 and the loop
\* reads adaptation_length bytes from i+13 on
AdaptationReads(i, adaptation_length) ==
    IF adaptation_length # 0
    THEN {i + 12} \cup {i + 13 + j : j \in 0..(adaptation_length - 1)}
    ELSE {}

\* the fixed part of either header; id_name is transaction_id or download_id
DsmccFixedFields(payload, i, id_name) ==
    [ protocol_discriminator |-> ByteAt(payload, i),
      dsmcc_type |-> ByteAt(payload, i + 1),
      message_id |-> CONVERT_TO_16(ByteAt(payload, i + 2), ByteAt(payload, i + 3)),
      id_name |-> id_name,
      id |-> CONVERT_TO_32(ByteAt(payload, i + 4), ByteAt(payload, i + 5),
                           ByteAt(payload, i + 6), ByteAt(payload, i + 7)),
      reserved |-> ByteAt(payload, i + 8),
      adaptation_length |-> ByteAt(payload, i + 9),
      message_length |-> CONVERT_TO_16(ByteAt(payload, i + 10), ByteAt(payload, i + 11)) ]

\* the results the parse of either header can have: the decoded header, the
\* indices read and the value returned, for every value the bytes read past
\* the end of the payload can have; "fault" when such a read ends the process
DsmccParseHeader(payload, index, id_name) ==
    LET i == index
        f == DsmccFixedFields(payload, i, id_name)
        al == f.adaptation_length
        reads == FixedReads(i) \cup AdaptationReads(i, al)
        past == {k \in reads : k >= Len(payload)}
    IN  IF al = 0
        THEN { [ phase |-> "parsed", header |-> f, adaptation_type |-> 0,
                 adaptation_data_bytes |-> <<>>, reads |-> reads, ret |-> i + 12 ] }
        ELSE { [ phase |-> "parsed", header |-> f,
                 adaptation_type |-> ByteAt(payload, i + 12),
                 adaptation_data_bytes |->
                     [j \in 1..al |-> IF i + 12 + j < Len(payload)
                                      THEN ByteAt(payload, i + 12 + j) ELSE g],
                 reads |-> reads, ret |-> i + 12 ] : g \in GarbageBytes }
             \cup (IF past # {} THEN { [phase |-> "fault", reads |-> reads] } ELSE {})

\* lines 97-117
dsmcc_parse_message_header(payload, index) ==
    DsmccParseHeader(payload, index, "transaction_id")

\* lines 119-139
dsmcc_parse_download_data_header(payload, index) ==
    DsmccParseHeader(payload, index, "download_id")

\* the DSM-CC messages of this model: a header with its adaptation bytes at
\* `index`, after `index` bytes of what precedes it, followed by `tail` bytes
\* of message body
DsmccHeaderBytes(message_id, al, adaptation) ==
    << 17, 3, message_id \div 256, message_id % 256, 1, 2, 3, 4, 255, al, 0, 5 >>
    \o adaptation

DsmccMessages ==
    UNION { { [ index |-> index,
                payload |-> [k \in 1..index |-> 170]
                            \o DsmccHeaderBytes(message_id, al, adaptation)
                            \o [k \in 1..tail |-> 85] ] :
                index \in {0, 1}, message_id \in {4098, 4099},
                adaptation \in [1..al -> {7, 9}], tail \in {0, 1} } :
            al \in 0..MaxAdaptation }

\* a DII parser calls dsmcc_parse_message_header on its section
DsmccParseMessageHeader ==
    /\ pc = "dsmcc_header"
    /\ msg.phase = "given" /\ msg.kind = "message"
    /\ \E r \in dsmcc_parse_message_header(msg.payload, msg.index) :
         msg' = r @@ msg
    /\ pc' = "dsmcc_done"
    /\ UNCHANGED << shared, pat, current_pat, version_dentry, call, reader,
                    installed, cd, query >>

\* a DDB parser calls dsmcc_parse_download_data_header on its section
DsmccParseDownloadDataHeader ==
    /\ pc = "dsmcc_header"
    /\ msg.phase = "given" /\ msg.kind = "download"
    /\ \E r \in dsmcc_parse_download_data_header(msg.payload, msg.index) :
         msg' = r @@ msg
    /\ pc' = "dsmcc_done"
    /\ UNCHANGED << shared, pat, current_pat, version_dentry, call, reader,
                    installed, cd, query >>

(* --------------------------- specification ---------------------------- *)

\* a step of pat_parse after line 307
PatBuild ==
    \/ PatCreateCommon
    \/ PatCreateVersionDir
    \/ PatPsiPopulate
    \/ PatPopulate
    \/ PatMigrate
    \/ PatDispose
    \/ PatDel
    \/ PatAdd

\* a step of the ingestion thread inside pat_parse
PatStep ==
    \/ \E sec \in Sections : PatParseBegin(sec)
    \/ PatBuild

\* the same, fed sections of any section_length
PatStepLengths ==
    \/ \E sec \in Sections \cup ShortSections : PatParseBegin(sec)
    \/ PatBuild

\* a step of a VFS reader thread
ReaderStep ==
    \/ \E path \in ReaderPaths : ReaderResolve(path)
    \/ ReaderLookup
    \/ ReaderRelease

Next ==
    \/ PatStep
    \/ NitInstall
    \/ ReaderStep
    \/ \E service_id \in ServiceIds : AnnouncesService(service_id)

\* the whole system
Spec == Init /\ [][Next]_vars

\* the ingestion thread fed PAT sections only, no reader
SpecPat == Init /\ [][PatStep]_vars

\* the ingestion thread fed PAT sections and the NIT
SpecTables == Init /\ [][PatStep \/ NitInstall]_vars

\* the ingestion thread fed PAT sections whose section_length may be less
\* than the 9 bytes a PAT without programs has
SpecLengths == Init /\ [][PatStepLengths]_vars

\* the ingestion thread fed PAT sections, its other parsers asking whether
\* services are announced
SpecServices ==
    Init /\ [][PatStep \/ \E service_id \in ServiceIds : AnnouncesService(service_id)]_vars

\* the ingestion thread fed PAT sections, with a concurrent reader
SpecReaders == Init /\ [][PatStep \/ ReaderStep]_vars

\* a DSM-CC parser about to render a compatibility descriptor
InitDsmcc ==
    /\ dentries = << [CallocDentry EXCEPT !.name = "/", !.kind = "dir"] >>
    /\ tables = << >>
    /\ psi_tables = << >>
    /\ psi_parsers = ReservedParsers
    /\ pc = "dsmcc"
    /\ pat = 0
    /\ current_pat = 0
    /\ version_dentry = 0
    /\ call = NoCall
    /\ reader = [op |-> "idle", ref |-> 0]
    /\ installed = {}
    /\ cd \in CompatibilityDescriptors
    /\ msg = NoMsg
    /\ query = NoQuery

SpecDsmcc == InitDsmcc /\ [][DsmccCreateDentries]_vars

\* a DSM-CC parser about to decode the header of a message
InitDsmccHeader ==
    /\ dentries = << [CallocDentry EXCEPT !.name = "/", !.kind = "dir"] >>
    /\ tables = << >>
    /\ psi_tables = << >>
    /\ psi_parsers = ReservedParsers
    /\ pc = "dsmcc_header"
    /\ pat = 0
    /\ current_pat = 0
    /\ version_dentry = 0
    /\ call = NoCall
    /\ reader = [op |-> "idle", ref |-> 0]
    /\ installed = {}
    /\ cd = NoCd
    /\ \E m \in DsmccMessages, kind \in {"message", "download"} :
         msg = [phase |-> "given", kind |-> kind, payload |-> m.payload,
                index |-> m.index]
    /\ query = NoQuery

SpecDsmccHeader ==
    InitDsmccHeader /\ [][DsmccParseMessageHeader \/ DsmccParseDownloadDataHeader]_vars

(* ------------------------------ properties ---------------------------- *)

PatKey == TS_PACKET_HASH_KEY(TS_PAT_PID, TS_PAT_TABLE_ID)

\* the names of the children of dentry d, and the children called `name`
ChildNames(h, d) == {h[h[d].children[i]].name : i \in 1..Len(h[d].children)}

ChildrenNamed(h, d, name) ==
    {i \in 1..Len(h[d].children) : h[h[d].children[i]].name = name}

\* the step is the beginning of a pat_parse call
CallBegins == pc = "idle" /\ call' # call

\* the latest call has returned after installing its table
Accepted == pc = "idle" /\ call.status = "accepted"

\* ... and the table replaced one that was stored
Superseded == Accepted /\ call.old # 0

\* the directory /PAT, the version directory of the latest call's table below
\* it, and that directory's Programs
PatDir == fsutils_get_child(dentries, RootDentry, FS_PAT_NAME)

NewVersionDir ==
    fsutils_get_child(dentries, PatDir,
                      VersionDirName(tables[call.pat].version_number))

NewPrograms == fsutils_get_child(dentries, NewVersionDir, FS_PROGRAMS_NAME)

\* C1 (version idempotence): a pat_parse call given a valid, applicable
\* section whose version_number is that of the PAT stored under the section's
\* key returns at once and leaves the dentry heap, the table objects,
\* psi_tables and psi_parsers as they were; /PAT holds exactly one V%02d
\* directory of that version before and after.
C1_VersionIdempotence ==
    [][ ( /\ CallBegins
          /\ call'.valid /\ call'.cni = 1
          /\ PatKey \in DOMAIN psi_tables
          /\ tables[psi_tables[PatKey]].version_number = call'.version )
        => ( /\ UNCHANGED shared
             /\ pc' = "idle"
             /\ call'.status = "same_version"
             /\ Cardinality(ChildrenNamed(dentries', PatDir,
                                          VersionDirName(call'.version))) = 1 )
      ]_vars

\* a same-version section has been dropped while a PAT was stored
C1_Witness ==
    /\ pc = "idle"
    /\ call.status = "same_version"
    /\ PatKey \in DOMAIN psi_tables
    /\ tables[psi_tables[PatKey]].version_number = call.version

\* C2 (supersession): once pat_parse has returned from replacing PAT version N
\* by version N+1, /PAT/Current names the V%02d directory of N+1 and resolves
\* to it, and the Programs directory there holds one symlink per program entry
\* of the N+1 section, named after its program_number, and none named after a
\* program_number only the version-N section listed.
C2_Supersession ==
    ( Superseded
      /\ tables[call.pat].version_number = tables[call.old].version_number + 1 )
    => LET new == tables[call.pat]
           old == tables[call.old]
           cur == fsutils_get_child(dentries, PatDir, FS_CURRENT_NAME)
           newnames == {ProgramLinkName(new.programs[i].program_number) :
                           i \in 1..Len(new.programs)}
           oldonly == {ProgramLinkName(old.programs[i].program_number) :
                           i \in 1..Len(old.programs)} \ newnames
       IN  /\ PatDir = new.dentry
           /\ cur # 0
           /\ dentries[cur].kind = "symlink"
           /\ dentries[cur].contents = VersionDirName(new.version_number)
           /\ NewVersionDir # 0
           /\ fsutils_get_dentry(dentries, RootDentry,
                                 <<FS_PAT_NAME, FS_CURRENT_NAME>>) = NewVersionDir
           /\ NewPrograms # 0
           /\ Len(dentries[NewPrograms].children) = Len(new.programs)
           /\ ChildNames(dentries, NewPrograms) = newnames
           /\ \A i \in 1..Len(dentries[NewPrograms].children) :
                /\ dentries[dentries[NewPrograms].children[i]].kind = "symlink"
                /\ dentries[dentries[NewPrograms].children[i]].live
           /\ ChildNames(dentries, NewPrograms) \cap oldonly = {}

\* version N+1 has replaced version N, dropping one program and adding another
C2_Witness ==
    /\ Superseded
    /\ tables[call.pat].version_number = tables[call.old].version_number + 1
    /\ \E i \in 1..Len(tables[call.old].programs) :
         \A j \in 1..Len(tables[call.pat].programs) :
            tables[call.pat].programs[j].program_number
              # tables[call.old].programs[i].program_number
    /\ \E j \in 1..Len(tables[call.pat].programs) :
         \A i \in 1..Len(tables[call.old].programs) :
            tables[call.pat].programs[j].program_number
              # tables[call.old].programs[i].program_number

\* C8 (rejected sections leave no trace): a pat_parse call whose section
\* psi_parse refuses, or whose current_next_indicator is 0, returns at once
\* and leaves the dentry heap, the table objects, psi_tables and psi_parsers
\* as they were.
C8_RejectedLeavesNoTrace ==
    [][ (CallBegins /\ (~call'.valid \/ call'.cni = 0))
        => ( /\ UNCHANGED shared
             /\ pc' = "idle"
             /\ call'.status \in {"psi_failed", "not_current"} )
      ]_vars

\* a section has been refused while a PAT was stored
C8_Witness ==
    /\ pc = "idle"
    /\ call.status \in {"psi_failed", "not_current"}
    /\ PatKey \in DOMAIN psi_tables

\* version N has been replaced by version N+1
SupersededByNext ==
    /\ Superseded
    /\ tables[call.pat].version_number = tables[call.old].version_number + 1

\* the version directory the replaced table had built (a child of its PAT
\* directory when the call began)
OldVersionDir ==
    FirstNamed(dentries, call.oldkids,
               VersionDirName(tables[call.old].version_number))

\* the dentries that can be reached from the root
Reachable == Subtree(dentries, RootDentry)

C5_DispatcherGrowth ==
    Accepted
    => \A i \in 1..Len(tables[call.pat].programs) :
         LET e == tables[call.pat].programs[i]
         IN  /\ e.pid \in DOMAIN psi_parsers
             /\ psi_parsers[e.pid] =
                  IF e.program_number # 0 THEN "pmt_parse" ELSE "nit_parse"

\* "0x" and four hexadecimal digits, padded with zeros
Hex4(n) == "0x" \o Zeros(4 - NumHexDigits(n)) \o HexDigits(n)

\* C6 (PAT cross-links): for every program entry {P, Q} of the accepted PAT,
\* the Programs directory of its version directory holds a symlink named
\* 0xNNNN (P in four hexadecimal digits) whose target is
\* ../../../PMT/0xPPPP/Current (Q in four digits) when P is not 0 and
\* ../../../NIT/Current when P is 0; and /PAT/Current names the version
\* directory.
C6_CrossLinks ==
    Accepted
    => /\ NewPrograms # 0
       /\ \A i \in 1..Len(tables[call.pat].programs) :
            LET e == tables[call.pat].programs[i]
                l == fsutils_get_child(dentries, NewPrograms, Hex4(e.program_number))
            IN  /\ l # 0
                /\ dentries[l].kind = "symlink"
                /\ dentries[l].contents =
                     IF e.program_number # 0
                     THEN "../../../PMT/" \o Hex4(e.pid) \o "/Current"
                     ELSE "../../../NIT/Current"
       /\ fsutils_get_dentry(dentries, RootDentry,
                             <<FS_PAT_NAME, FS_CURRENT_NAME>>) = NewVersionDir

\* the directory descriptor_NN of the rendered compatibility descriptor
DescriptorDir(i) ==
    fsutils_get_child(dentries, RootDentry, "descriptor_" \o Fmt02d(i))

\* the names sub_descriptor_01 .. sub_descriptor_n
SubDescriptorNames(n) == {"sub_descriptor_" \o Fmt02d(k) : k \in 1..n}

\* the children of d that are directories
DirNames(h, d) ==
    {h[h[d].children[i]].name :
        i \in {j \in 1..Len(h[d].children) : h[h[d].children[j]].kind = "dir"}}

\* the contents of the leaf of d called `name` ("" when there is none)
LeafOf(h, d, name) ==
    IF fsutils_get_child(h, d, name) = 0 THEN ""
    ELSE h[fsutils_get_child(h, d, name)].contents

\* C7 (the compatibility descriptor tree mirrors the structure): once the
\* descriptor is rendered, the parent holds the directories descriptor_01 ..
\* descriptor_n for descriptor_count = n, and descriptor_i holds exactly the
\* directories sub_descriptor_01 .. sub_descriptor_MM for the
\* sub_descriptor_count MM of the i-th descriptor, and leaves with the fields
\* of the i-th descriptor.
C7_CompatibilityTreeMirrors ==
    pc = "dsmcc_done"
    => /\ DirNames(dentries, RootDentry)
            = {"descriptor_" \o Fmt02d(i) : i \in 1..cd.descriptor_count}
       /\ \A i \in 1..cd.descriptor_count :
            LET desc == cd.descriptors[i]
                dir == DescriptorDir(i)
            IN  /\ dir # 0
                /\ DirNames(dentries, dir)
                     = SubDescriptorNames(desc.sub_descriptor_count)
                /\ LeafOf(dentries, dir, "descriptor_type")
                     = ToString(desc.descriptor_type)
                /\ LeafOf(dentries, dir, "descriptor_length")
                     = ToString(desc.descriptor_length)
                /\ LeafOf(dentries, dir, "model") = ToString(desc.model)
                /\ LeafOf(dentries, dir, "sub_descriptor_count")
                     = ToString(desc.sub_descriptor_count)

\* C9 (install before free on psi_tables): a reader that probes psi_tables for
\* a key that has been installed finds an entry, and the table object and
\* dentry tree of the entry it finds have not been freed.
C9_InstallBeforeFree == reader.op \notin {"lost", "freed_table"}

\* C10 (reader safety across supersession): a dentry a reader resolved and
\* still holds has not been freed.
C10_ReaderSafety == reader.op = "dentry" => dentries[reader.ref].live

\* the names a version directory can have
VersionDirNames == {VersionDirName(v) : v \in 0..31}

\* the children of dentry d that are version directories
VersionDirsOf(h, d) ==
    {h[d].children[i] : i \in {j \in 1..Len(h[d].children) :
                                 h[h[d].children[j]].name \in VersionDirNames}}

\* C11 (detached construction): whatever PAT directory a reader finds by name
\* from the root, in any state of the ingestion thread, has a Current link and
\* a version directory, and each of its version directories has the leaf of
\* every field of the common header and a Programs directory.
C11_DetachedConstruction ==
    PatDir # 0 =>
        /\ fsutils_get_child(dentries, PatDir, FS_CURRENT_NAME) # 0
        /\ VersionDirsOf(dentries, PatDir) # {}
        /\ \A v \in VersionDirsOf(dentries, PatDir) :
             /\ \A i \in 1..Len(PsiHeaderFields) :
                  fsutils_get_child(dentries, v, PsiHeaderFields[i]) # 0
             /\ fsutils_get_child(dentries, v, FS_PROGRAMS_NAME) # 0

\* the live directories that can be reached from the root
ReachableDirs == {d \in Reachable : dentries[d].kind = "dir"}

\* C12 (no child-name collisions): in every state, the intermediate states of
\* a superseding pat_parse included, no directory reachable from the root has
\* two children of the same name; the root has at most one child named PAT.
C12_NoChildNameCollisions ==
    /\ \A d \in ReachableDirs :
         \A i, j \in 1..Len(dentries[d].children) :
             dentries[dentries[d].children[i]].name
               = dentries[dentries[d].children[j]].name => i = j
    /\ Cardinality(ChildrenNamed(dentries, RootDentry, FS_PAT_NAME)) <= 1

\* C13 (DSM-CC header extent): a header parse started at index i decodes the
\* seven fixed fields from payload[i..i+11], big-endian, with transaction_id
\* (message header) or download_id (download data header) from bytes 4..7;
\* when adaptation_length > 0 it reads exactly adaptation_length further
\* bytes, the first of them adaptation_type, and never an index at or above
\* i + 12 + adaptation_length.
C13_HeaderExtent ==
    msg.phase \in {"parsed", "fault"} =>
        LET i == msg.index
            b == [k \in 0..11 |-> msg.payload[i + k + 1]]
            al == b[9]
        IN  /\ FixedReads(i) \subseteq msg.reads
            /\ Cardinality(msg.reads \ FixedReads(i)) = al
            /\ \A k \in msg.reads : k < i + 12 + al
            /\ msg.phase = "parsed" =>
                 /\ msg.header.protocol_discriminator = b[0]
                 /\ msg.header.dsmcc_type = b[1]
                 /\ msg.header.message_id = 256 * b[2] + b[3]
                 /\ msg.header.id_name = IF msg.kind = "message"
                                         THEN "transaction_id" ELSE "download_id"
                 /\ msg.header.id = 16777216 * b[4] + 65536 * b[5] + 256 * b[6] + b[7]
                 /\ msg.header.reserved = b[8]
                 /\ msg.header.adaptation_length = al
                 /\ msg.header.message_length = 256 * b[10] + b[11]
                 /\ msg.ret = i + 12
                 /\ al > 0 => msg.adaptation_type = msg.payload[i + 13]

\* the latest call went past the tests of lines 272 and 283
PastDropTests == call.status \in {"running", "accepted", "fault", "garbage"}

\* C14 (PAT program count and bounds): a call that goes past the drop tests
\* parses (section_length - 9) / 4 program entries, and every payload index
\* it reads, the common header's 0..7 and the four bytes of each entry, is
\* below 3 + section_length and below payload_len; no call reads past the end
\* of its payload.
C14_ProgramCountAndBounds ==
    PastDropTests =>
        /\ call.section_length >= 9 =>
             call.num_programs = (call.section_length - 9) \div 4
        /\ \A k \in 0..7 : k < 3 + call.section_length /\ k < call.payload_len
        /\ \A i \in 0..(call.num_programs - 1) : \A k \in ProgramReads(i) :
             k < 3 + call.section_length /\ k < call.payload_len
        /\ call.status \notin {"fault", "garbage"}

\* the PIDs a table object announces
AnnouncedPids(t) == {t.programs[i].pid : i \in 1..Len(t.programs)}

\* C15 (registrations are never removed): no step takes a PID out of
\* psi_parsers, so every PID that was registered when a superseding call began
\* (those the superseded version announced among them) is still registered
\* when it returns; pat_populate adds entries for PIDs its table announces
\* only, and psi_parsers, keyed by PID, holds one entry for a PID however
\* often it is announced.
C15_RegistrationsKept ==
    [][ /\ \A p \in DOMAIN psi_parsers : p \in DOMAIN psi_parsers'
        /\ (pc = "pat_populate" /\ pc' # pc) =>
             DOMAIN psi_parsers' \subseteq
                 DOMAIN psi_parsers \cup AnnouncedPids(tables[pat])
      ]_vars

\* a PAT has been superseded by one that drops a PID the old one announced
\* and announces again a PID the old one announced; both are registered
C15_Witness ==
    /\ Superseded
    /\ \E p \in AnnouncedPids(tables[call.old]) \ AnnouncedPids(tables[call.pat]) :
         p \in DOMAIN psi_parsers /\ p \notin DOMAIN ReservedParsers
    /\ \E p \in AnnouncedPids(tables[call.old]) \cap AnnouncedPids(tables[call.pat]) :
         p \in DOMAIN psi_parsers /\ p \notin DOMAIN ReservedParsers

\* C16 (any different version supersedes): a pat_parse call given a valid,
\* applicable section whose version_number differs from that of the PAT stored
\* under the key, higher or lower, goes on to build its table; and when a call
\* that found a PAT stored returns, psi_tables holds the call's table under
\* the key and /PAT/Current names and resolves to its V%02d directory.
C16_DifferentVersionSupersedes ==
    [][ /\ ( /\ CallBegins
             /\ call'.valid /\ call'.cni = 1
             /\ PatKey \in DOMAIN psi_tables
             /\ tables[psi_tables[PatKey]].version_number # call'.version
             /\ Cardinality(PatTables) < MaxParses )
           => ( /\ pc' = "create_common"
                /\ call'.status = "running"
                /\ call'.old = psi_tables[PatKey]
                /\ tables'[pat'].version_number = call'.version )
        /\ (pc = "add" /\ pc' = "idle" /\ call.old # 0)
           => LET root == fsutils_get_child(dentries', RootDentry, FS_PAT_NAME)
                  cur == fsutils_get_child(dentries', root, FS_CURRENT_NAME)
                  name == VersionDirName(tables'[pat].version_number)
              IN  /\ call'.status = "accepted"
                  /\ hashtable_get(psi_tables', PatKey) = pat
                  /\ root = tables'[pat].dentry
                  /\ cur # 0
                  /\ dentries'[cur].contents = name
                  /\ fsutils_get_child(dentries', root, name) # 0
                  /\ fsutils_get_dentry(dentries', RootDentry,
                                        <<FS_PAT_NAME, FS_CURRENT_NAME>>)
                       = fsutils_get_child(dentries', root, name)
      ]_vars

\* a PAT has been superseded by one of a lower version_number, which is now
\* the table stored
C16_Witness ==
    /\ Superseded
    /\ tables[call.pat].version_number < tables[call.old].version_number
    /\ hashtable_get(psi_tables, PatKey) = call.pat

\* C17 (single disposal on supersession): when line 314 runs, the dentry of
\* the superseded table, from which the key given to hashtable_del is read,
\* has not been disposed, and the table whose entry hashtable_del removes, on
\* which the disposer pat_free then runs, has a dentry tree that has not been
\* disposed before.
C17_SingleDisposal ==
    [][ (pc = "del" /\ pc' # pc)
        => /\ dentries[tables[current_pat].dentry].live
           /\ \A k \in DOMAIN psi_tables \ DOMAIN psi_tables' :
                dentries[tables[psi_tables[k]].dentry].live
      ]_vars

\* C18 (table/tree agreement): whenever no pat_parse call is running and
\* psi_tables holds a table under the PAT's key, that table is a PAT that has
\* not been freed, the root has one directory named PAT, which is the table's
\* dentry, and /PAT/Current names the V%02d directory of the table's
\* version_number, which exists; psi_tables holds one table per key.
C18_TableTreeAgreement ==
    (pc = "idle" /\ PatKey \in DOMAIN psi_tables) =>
        LET t == tables[psi_tables[PatKey]]
            cur == fsutils_get_child(dentries, PatDir, FS_CURRENT_NAME)
            vdir == fsutils_get_child(dentries, PatDir,
                                      VersionDirName(t.version_number))
        IN  /\ t.kind = "PAT" /\ t.live
            /\ Cardinality(ChildrenNamed(dentries, RootDentry, FS_PAT_NAME)) = 1
            /\ PatDir = t.dentry
            /\ dentries[PatDir].live
            /\ cur # 0
            /\ dentries[cur].kind = "symlink" /\ dentries[cur].live
            /\ dentries[cur].contents = VersionDirName(t.version_number)
            /\ vdir # 0
            /\ dentries[vdir].kind = "dir" /\ dentries[vdir].live
            /\ fsutils_get_dentry(dentries, RootDentry,
                                  <<FS_PAT_NAME, FS_CURRENT_NAME>>) = vdir

\* a superseding call and then a dropped one have returned, and a PAT is
\* stored
C18_Witness ==
    /\ pc = "idle"
    /\ call.status = "same_version"
    /\ PatKey \in DOMAIN psi_tables
    /\ Cardinality(PatTables) = 2
    /\ tables[psi_tables[PatKey]].version_number = 0

\* whether the table stored for the PAT lists program_number S
ListedByStoredPat(S) ==
    /\ PatKey \in DOMAIN psi_tables
    /\ \E i \in 1..Len(tables[psi_tables[PatKey]].programs) :
         tables[psi_tables[PatKey]].programs[i].program_number = S

\* C19 (service lookup follows the current PAT): a pat_announces_service(S)
\* call made between pat_parse calls returns true exactly when the PAT stored,
\* which is the one accepted last, lists program_number S; it returns false
\* when no PAT has been accepted and for a program_number that only a
\* superseded version listed.
C19_ServiceFollowsCurrentPat ==
    [][ (pc = "idle" /\ query'.asked /\ query' # query)
        => (query'.result <=> ListedByStoredPat(query'.service_id)) ]_vars

\* asked after a supersession about a program that only the superseded version
\* listed, the answer was false
C19_Witness ==
    /\ Superseded
    /\ query.asked /\ query.pat = call.pat
    /\ ~query.result
    /\ \E i \in 1..Len(tables[call.old].programs) :
         tables[call.old].programs[i].program_number = query.service_id

====
